---- MODULE Spec2Model ----
(***************************************************************************)
(* A model of pty-rs: forking a child process attached to a fresh          *)
(* pseudo-terminal.  Two entry points exist in the repository:             *)
(*   - Fork::new / Fork::from_ptmx   (src/fork/mod.rs)                     *)
(*   - fork()                        (src/lib.rs)                          *)
(* Every operating-system call is one step of the calling process; its     *)
(* outcome (success or failure) is chosen by the environment.  The         *)
(* original process is "P", the process created by fork(2) is "C".         *)
(***************************************************************************)
EXTENDS Integers, Sequences, FiniteSets, TLC

\* ------------------------------------------------------------------ bounds
\* Process ids the kernel may hand out to children of P are 1..MaxPid.
MaxPid == 2
\* waitpid(2) calls a process may make (caps retries of the wait loop).
MaxWaitpid == 3
\* Times the destructor of one handle may be run ("if externally possible").
MaxDrops == 2
\* ChildPTY values (results of Child::pty and their clones) a caller holds.
MaxCopies == 2
\* Calls of ChildPTY::close a process may make.
MaxCloses == 2
\* Calls of read(2) in one read-to-end that return data.
MaxReads == 2
\* Length of the buffer handed to ChildPTY::read and ChildPTY::write.
BufLen == 2

\* --------------------------------------------------------------- constants
STDIN_FILENO == 0
STDOUT_FILENO == 1
STDERR_FILENO == 2
DEFAULT_PTMX == "/dev/ptmx"

Procs == {"P", "C"}
\* Terminals P may be started on: a pseudo-terminal slave, the console.
\* A path is the sequence of its components, as split("/") gives them.
ParentTtys == {<<"", "dev", "pts", "0">>, <<"", "dev", "tty1">>}
Pids == 1..MaxPid
Slots == {STDIN_FILENO, STDOUT_FILENO, STDERR_FILENO}
\* Paths a caller may hand to Fork::new: the multiplexer, and one that
\* cannot be opened.
Paths == {DEFAULT_PTMX, "/nonexistent"}

VARIABLES
  impl,      \* entry point entered by P: "none", "mod" (Fork::new), "lib" (fork())
  pc,        \* position of each process in the code
  handle,    \* value the fork protocol returned to each process
  forkret,   \* per process: value fork(2) returned in it
  pending,   \* per process: calls whose Err is held in a temporary Option
  calls,     \* per process: OS-level calls attempted so far, with outcome
  open,      \* per process: descriptors open in its descriptor table
  std,       \* per process: what each standard slot refers to
  session,   \* per process: session it belongs to
  cpid,      \* pid of the process created by fork(2), 0 before
  child,     \* life cycle of C: "unborn", "running", "exited"
  zombies,   \* pids of P's children that terminated and are not yet reaped
  ret,       \* per process: value returned by its last handle method
  waitpids,  \* per process: number of waitpid(2) calls made
  wrets,     \* per process: values waitpid returned in the current wait()
  drops,     \* per process: number of times the handle's destructor ran
  guard,     \* per process: the descriptor's "already closed" guard
  closes,    \* per process: number of close(2) calls on the master
  ttypath,   \* path of the controlling terminal of P, as `tty` prints it
  copies,    \* per process: ChildPTY values its caller holds (lib.rs)
  wstats,    \* per process: last status waitpid gave the current Child::wait
  panicked,  \* per process: whether a method of lib.rs panicked in it
  orphans,   \* whether C has a terminated, unreaped child of its own
  iorets     \* per process: what read(2) or write(2) returned in the current call

\* The state that only the operations of src/lib.rs touch.
libvars == <<ttypath, copies, wstats, panicked, orphans, iorets>>

vars == <<impl, pc, handle, forkret, pending, calls, open, std, session, cpid, child,
          zombies, ret, waitpids, wrets, drops, guard, closes, libvars>>

\* ------------------------------------------------------------------ values
\* enum Fork { Father(pid, Master), Child(Slave) }, Result<Fork> and
\* lib.rs's struct Child { pid, pty }, as one record shape.
H(tag, pid, pty, err, cause) ==
  [tag |-> tag, pid |-> pid, pty |-> pty, err |-> err, cause |-> cause]
NoHandle == H("none", 0, "None", "", "")
Father(pid) == H("Father", pid, "master", "", "")
Child(slave) == H("Child", 0, slave, "", "")
LibChild(pid, pty) == H("LibChild", pid, pty, "", "")
Err(err, cause) == H("Err", 0, "None", err, cause)

\* Result of a handle method.
R(op, ok, pid, fd, err) ==
  [op |-> op, ok |-> ok, pid |-> pid, fd |-> fd, err |-> err]
NoRet == R("none", FALSE, 0, "None", "")

Call(c, ok) == [c |-> c, ok |-> ok]
Log(p, c, ok) == [calls EXCEPT ![p] = Append(@, Call(c, ok))]

InitOn(ttys) ==
  /\ impl = "none"
  /\ pc = [p \in Procs |-> IF p = "P" THEN "start" ELSE "absent"]
  /\ handle = [p \in Procs |-> NoHandle]
  /\ forkret = [p \in Procs |-> -1]
  /\ pending = [p \in Procs |-> {}]
  /\ calls = [p \in Procs |-> <<>>]
  /\ open = [p \in Procs |-> {}]
  /\ std = [p \in Procs |-> [s \in Slots |-> "tty"]]
  /\ session = [p \in Procs |-> "orig"]
  /\ cpid = 0
  /\ child = "unborn"
  /\ zombies = {}
  /\ ret = [p \in Procs |-> NoRet]
  /\ waitpids = [p \in Procs |-> 0]
  /\ wrets = [p \in Procs |-> <<>>]
  /\ drops = [p \in Procs |-> 0]
  /\ guard = [p \in Procs |-> FALSE]
  /\ closes = [p \in Procs |-> 0]
  /\ ttypath \in ttys
  /\ copies = [p \in Procs |-> 0]
  /\ wstats = [p \in Procs |-> "none"]
  /\ panicked = [p \in Procs |-> FALSE]
  /\ orphans = FALSE
  /\ iorets = [p \in Procs |-> <<>>]

\* P runs on a pseudo-terminal, as under a terminal emulator or sshd.
Init == InitOn({<<"", "dev", "pts", "0">>})
\* P runs on any of the terminals.
InitTty == InitOn(ParentTtys)

\* A process can take a step only while it runs.
Runs(p) == p = "P" \/ child = "running"

\* The process returns v from the protocol.
Return(p, v) ==
  /\ handle' = [handle EXCEPT ![p] = v]
  /\ pc' = [pc EXCEPT ![p] = "done"]

\* fork(2), called by P, returns r in P: -1, or a pid no child of P has.
\* When r # -1 the process C now exists as a copy of P, and fork(2)
\* returns 0 in it; both continue at position `next`.
Fork2(r, next) ==
  IF r = -1
    THEN /\ forkret' = [forkret EXCEPT !["P"] = r]
         /\ pc' = [pc EXCEPT !["P"] = next]
         /\ UNCHANGED <<libvars, cpid, child, open, std, session, pending>>
    ELSE /\ forkret' = [forkret EXCEPT !["P"] = r, !["C"] = 0]
         /\ pc' = [pc EXCEPT !["P"] = next, !["C"] = next]
         /\ cpid' = r
         /\ child' = "running"
         /\ open' = [open EXCEPT !["C"] = open["P"]]
         /\ std' = [std EXCEPT !["C"] = std["P"]]
         /\ session' = [session EXCEPT !["C"] = session["P"]]
         /\ pending' = [pending EXCEPT !["C"] = {}]

\* ------------------------------------- Master / Slave primitives
\* The module fork::pty (Master, Slave) and the Descriptor trait are used
\* by src/fork/mod.rs; their effect on the descriptor table `fds` and on
\* the standard slots `slots` of the calling process follows their
\* contract: allocate, open(path), duplicate_onto(slot).
Master_new(fds, ok) == IF ok THEN fds \cup {"master"} ELSE fds
Slave_new(fds, ok) == IF ok THEN fds \cup {"slave"} ELSE fds
Slave_dup2(slots, s, ok) == IF ok THEN [slots EXCEPT ![s] = "pts"] ELSE slots

\* =================================================== src/fork/mod.rs
\* Fork::new, lines 25-31: Master::new(path).
Fork_new(path) ==
  /\ pc["P"] = "start"
  /\ impl' = "mod"
  /\ \E ok \in (IF path = DEFAULT_PTMX THEN BOOLEAN ELSE {FALSE}) :
       /\ calls' = Log("P", "open_master", ok)
       /\ open' = [open EXCEPT !["P"] = Master_new(@, ok)]
       /\ IF ok
            THEN /\ pc' = [pc EXCEPT !["P"] = "m_grantpt"]
                 /\ UNCHANGED handle
            ELSE Return("P", Err("BadMaster", "open_master"))
  /\ UNCHANGED <<libvars, forkret, pending, std, session, cpid, child, zombies, ret,
                 waitpids, wrets, drops, guard, closes>>

\* Fork::from_ptmx, lines 81-83.
Fork_from_ptmx == Fork_new(DEFAULT_PTMX)

\* Fork::new, line 33: master.grantpt().err() is the receiver of `.or(..)`.
\* Option::or takes its argument by value, so the argument expression
\* (master.unlockpt().err(), line 34) is evaluated next whatever grantpt
\* returned.
Fork_new_grantpt ==
  /\ pc["P"] = "m_grantpt"
  /\ \E ok \in BOOLEAN :
       /\ calls' = Log("P", "grantpt", ok)
       /\ pending' = [pending EXCEPT !["P"] = IF ok THEN @ ELSE @ \cup {"grantpt"}]
  /\ pc' = [pc EXCEPT !["P"] = "m_unlockpt"]
  /\ UNCHANGED <<libvars, impl, handle, forkret, open, std, session, cpid, child,
                 zombies, ret, waitpids, wrets, drops, guard, closes>>

\* Mutant of GrantUnlockCause: the error of unlockpt is dropped.
GrantUnlockCause_grant_only(failed) ==
  IF "grantpt" \in failed THEN "grantpt" ELSE "none"

\* a.or(b): the first Some of the two, as the name of the failed call.
GrantUnlockCause(failed) ==
  IF "grantpt" \in failed THEN "grantpt"
  ELSE IF "unlockpt" \in failed THEN "unlockpt"
  ELSE "none"

\* Fork::new, lines 34-37: unlockpt, then the `if let Some(cause)`.
Fork_new_unlockpt ==
  /\ pc["P"] = "m_unlockpt"
  /\ \E ok \in BOOLEAN :
       LET failed == IF ok THEN pending["P"] ELSE pending["P"] \cup {"unlockpt"}
           cause == GrantUnlockCause(failed)
       IN /\ calls' = Log("P", "unlockpt", ok)
          /\ pending' = [pending EXCEPT !["P"] = {}]
          /\ IF cause # "none"
               THEN Return("P", Err("BadMaster", cause))
               ELSE /\ pc' = [pc EXCEPT !["P"] = "m_fork"]
                    /\ UNCHANGED handle
  /\ UNCHANGED <<libvars, impl, forkret, open, std, session, cpid, child, zombies,
                 ret, waitpids, wrets, drops, guard, closes>>

\* Fork::new, line 38: the call libc::fork().
Fork_new_fork ==
  /\ pc["P"] = "m_fork"
  /\ \E r \in {-1} \cup (Pids \ zombies) :
       /\ calls' = Log("P", "fork", r # -1)
       /\ Fork2(r, "m_match")
  /\ UNCHANGED <<libvars, impl, handle, zombies, ret, waitpids, wrets, drops, guard, closes>>

\* Mutant of ForkArm: the arms for 0 and for a pid are exchanged.
ForkArm_swapped(r) ==
  IF r = -1 THEN "Failure" ELSE IF r = 0 THEN "father" ELSE "child"

\* The arms of `match libc::fork()`, lines 38-45, by the value fork
\* returned in the process that evaluates the match.
ForkArm(r) == IF r = -1 THEN "Failure" ELSE IF r = 0 THEN "child" ELSE "father"

\* Fork::new, lines 38-45: each process matches on its own return value.
Fork_new_match(p) ==
  /\ pc[p] = "m_match"
  /\ Runs(p)
  /\ LET arm == ForkArm(forkret[p])
     IN CASE arm = "Failure" -> Return(p, Err("Failure", ""))
          [] arm = "child" -> /\ pc' = [pc EXCEPT ![p] = "m_ptsname"]
                              /\ UNCHANGED handle
          [] OTHER -> Return(p, Father(forkret[p]))
  /\ UNCHANGED <<libvars, impl, forkret, pending, calls, open, std, session, cpid,
                 child, zombies, ret, waitpids, wrets, drops, guard, closes>>

\* Fork::new, lines 40-43: master.ptsname() in the child arm.
Fork_new_ptsname(p) ==
  /\ pc[p] = "m_ptsname"
  /\ Runs(p)
  /\ \E ok \in BOOLEAN :
       /\ calls' = Log(p, "ptsname", ok)
       /\ IF ok
            THEN /\ pc' = [pc EXCEPT ![p] = "m_setsid"]
                 /\ UNCHANGED handle
            ELSE Return(p, Err("BadMaster", "ptsname"))
  /\ UNCHANGED <<libvars, impl, forkret, pending, open, std, session, cpid, child,
                 zombies, ret, waitpids, wrets, drops, guard, closes>>

\* Mutant of setsid_failed: the value of setsid is not tested.
setsid_failed_unchecked(r) == FALSE

\* Fork::from_pts, line 58: `libc::setsid() == -1`.
setsid_failed(r) == r = -1

\* Fork::from_pts, lines 58-62: libc::setsid(), which returns -1 or the
\* id of the new session, the caller's pid.
from_pts_setsid(p) ==
  /\ pc[p] = "m_setsid"
  /\ Runs(p)
  /\ \E r \in {-1, cpid} :
       /\ calls' = Log(p, "setsid", r # -1)
       /\ session' = [session EXCEPT ![p] = IF r # -1 THEN "new" ELSE @]
       /\ IF setsid_failed(r)
            THEN Return(p, Err("SetsidFail", ""))
            ELSE /\ pc' = [pc EXCEPT ![p] = "m_open"]
                 /\ UNCHANGED handle
  /\ UNCHANGED <<libvars, impl, forkret, pending, open, std, cpid, child, zombies,
                 ret, waitpids, wrets, drops, guard, closes>>

\* Name of the call that duplicates onto slot s.
Dup2Name(s) ==
  IF s = STDIN_FILENO THEN "dup2_stdin"
  ELSE IF s = STDOUT_FILENO THEN "dup2_stdout"
  ELSE "dup2_stderr"

\* Position of a process about to duplicate onto slot s.
DupPc(s) ==
  IF s = STDIN_FILENO THEN "m_dup_stdin"
  ELSE IF s = STDOUT_FILENO THEN "m_dup_stdout"
  ELSE "m_dup_stderr"

\* Fork::from_pts, lines 62-63: Slave::new(ptsname).
from_pts_SlaveNew(p) ==
  /\ pc[p] = "m_open"
  /\ Runs(p)
  /\ \E ok \in BOOLEAN :
       /\ calls' = Log(p, "open_slave", ok)
       /\ open' = [open EXCEPT ![p] = Slave_new(@, ok)]
       /\ IF ok
            THEN /\ pc' = [pc EXCEPT ![p] = DupPc(STDIN_FILENO)]
                 /\ UNCHANGED handle
            ELSE Return(p, Err("BadSlave", "open_slave"))
  /\ UNCHANGED <<libvars, impl, forkret, pending, std, session, cpid, child, zombies,
                 ret, waitpids, wrets, drops, guard, closes>>

\* Mutant of DupCause: the error of the dup2 onto stderr is dropped.
DupCause_no_stderr(failed) ==
  IF Dup2Name(STDIN_FILENO) \in failed THEN Dup2Name(STDIN_FILENO)
  ELSE IF Dup2Name(STDOUT_FILENO) \in failed THEN Dup2Name(STDOUT_FILENO)
  ELSE "none"

\* a.or(b.or(c)) of lines 65-67: the first Some of the three.
DupCause(failed) ==
  IF Dup2Name(STDIN_FILENO) \in failed THEN Dup2Name(STDIN_FILENO)
  ELSE IF Dup2Name(STDOUT_FILENO) \in failed THEN Dup2Name(STDOUT_FILENO)
  ELSE IF Dup2Name(STDERR_FILENO) \in failed THEN Dup2Name(STDERR_FILENO)
  ELSE "none"

\* Fork::from_pts, lines 65-72: slave.dup2(s), and after the last one the
\* `if let Some(cause)`.  `.or` evaluates its argument before it is
\* called, so the three dup2 calls of lines 65-67 are made one after the
\* other, whatever the earlier ones returned.
from_pts_dup2(p, s) ==
  /\ pc[p] = DupPc(s)
  /\ Runs(p)
  /\ \E ok \in BOOLEAN :
       LET failed == IF ok THEN pending[p] ELSE pending[p] \cup {Dup2Name(s)}
       IN /\ calls' = Log(p, Dup2Name(s), ok)
          /\ std' = [std EXCEPT ![p] = Slave_dup2(@, s, ok)]
          /\ IF s # STDERR_FILENO
               THEN /\ pending' = [pending EXCEPT ![p] = failed]
                    /\ pc' = [pc EXCEPT ![p] = DupPc(s + 1)]
                    /\ UNCHANGED handle
               ELSE /\ pending' = [pending EXCEPT ![p] = {}]
                    /\ IF DupCause(failed) # "none"
                         THEN Return(p, Err("BadSlave", DupCause(failed)))
                         ELSE Return(p, Child("slave"))
  /\ UNCHANGED <<libvars, impl, forkret, open, session, cpid, child, zombies, ret,
                 waitpids, wrets, drops, guard, closes>>

\* ------------------------------------------------ the Process handle
\* A process may call a method of the Fork value it was returned while it
\* holds that value: after the protocol returned and before it is dropped.
Holds(p) ==
  /\ pc[p] = "done"
  /\ Runs(p)
  /\ handle[p].tag \in {"Father", "Child"}
  /\ drops[p] = 0

\* waitpid(pid, &mut status, 0) called by process p: the values it may
\* return.  -1 is an error; a child's pid is returned once that child has
\* terminated (pid > 0 names one child, otherwise any child will do); 0 is
\* the "no state change" value the loop of Fork::wait retries on.
waitpid(p, pid) ==
  {-1, 0} \cup (IF p # "P" THEN {}
                ELSE IF pid > 0 THEN {pid} \cap zombies
                ELSE zombies)

\* Mutant of wait_loops: the child variant enters the loop too.
wait_loops_always(h) == TRUE

\* Fork::wait, lines 87-89: the arms of `match *self`; TRUE for the arm
\* that enters the waitpid loop.
wait_loops(h) == h.tag = "Father"

\* Fork::wait, lines 86-89: the call, up to the first waitpid.
Fork_wait(p) ==
  /\ Holds(p)
  /\ wait_loops(handle[p]) => waitpids[p] < MaxWaitpid
  /\ wrets' = [wrets EXCEPT ![p] = <<>>]
  /\ IF wait_loops(handle[p])
       THEN /\ pc' = [pc EXCEPT ![p] = "waiting"]
            /\ ret' = [ret EXCEPT ![p] = NoRet]
       ELSE /\ ret' = [ret EXCEPT ![p] = R("wait", FALSE, 0, "None", "IsChild")]
            /\ UNCHANGED pc
  /\ UNCHANGED <<libvars, impl, handle, forkret, pending, calls, open, std, session,
                 cpid, child, zombies, waitpids, drops, guard, closes>>

\* Mutant of WaitArm: "no state change" falls into the catch-all arm.
WaitArm_zero_returns(r) == IF r = -1 THEN "WaitpidFail" ELSE "Ok"

\* Fork::wait, lines 91-95: the arms of the match on waitpid's value.
WaitArm(r) == IF r = 0 THEN "continue" ELSE IF r = -1 THEN "WaitpidFail" ELSE "Ok"

\* Fork::wait, lines 89-96: one turn of the loop.
Fork_wait_waitpid(p) ==
  /\ pc[p] = "waiting"
  /\ Runs(p)
  /\ \E r \in waitpid(p, handle[p].pid) :
       /\ r = 0 => waitpids[p] + 1 < MaxWaitpid
       /\ waitpids' = [waitpids EXCEPT ![p] = @ + 1]
       /\ wrets' = [wrets EXCEPT ![p] = Append(@, r)]
       /\ zombies' = zombies \ {r}
       /\ CASE WaitArm(r) = "continue" -> UNCHANGED <<pc, ret>>
            [] WaitArm(r) = "WaitpidFail" ->
                 /\ pc' = [pc EXCEPT ![p] = "done"]
                 /\ ret' = [ret EXCEPT ![p] = R("wait", FALSE, 0, "None", "WaitpidFail")]
            [] OTHER ->
                 /\ pc' = [pc EXCEPT ![p] = "done"]
                 /\ ret' = [ret EXCEPT ![p] = R("wait", TRUE, handle[p].pid, "None", "")]
  /\ UNCHANGED <<libvars, impl, handle, forkret, pending, calls, open, std, session,
                 cpid, child, drops, guard, closes>>

\* Master::clone(): the duplicate handed to the caller is a view of the
\* same descriptor; making it opens and closes nothing.
Master_clone(fd) == fd

\* Mutant of is_father: the variant is not looked at.
is_father_any(h) == R("is_father", TRUE, 0, Master_clone(h.pty), "")

\* Fork::is_father, lines 103-108.
is_father(h) ==
  IF h.tag = "Child" THEN R("is_father", FALSE, 0, "None", "IsChild")
  ELSE R("is_father", TRUE, 0, Master_clone(h.pty), "")

\* Fork::is_child, lines 112-117.
is_child(h) ==
  IF h.tag = "Father" THEN R("is_child", FALSE, 0, "None", "IsFather")
  ELSE R("is_child", TRUE, 0, h.pty, "")

Fork_is_father(p) ==
  /\ Holds(p)
  /\ ret' = [ret EXCEPT ![p] = is_father(handle[p])]
  /\ UNCHANGED <<libvars, impl, pc, handle, forkret, pending, calls, open, std,
                 session, cpid, child, zombies, waitpids, wrets, drops, guard,
                 closes>>

Fork_is_child(p) ==
  /\ Holds(p)
  /\ ret' = [ret EXCEPT ![p] = is_child(handle[p])]
  /\ UNCHANGED <<libvars, impl, pc, handle, forkret, pending, calls, open, std,
                 session, cpid, child, zombies, waitpids, wrets, drops, guard,
                 closes>>

\* Descriptor::drop(master): closes the descriptor, guarded so that the
\* close runs at most once in the lifetime of the handle.
Descriptor_drop(p) ==
  IF guard[p]
    THEN UNCHANGED <<open, guard, closes>>
    ELSE /\ open' = [open EXCEPT ![p] = @ \ {"master"}]
         /\ guard' = [guard EXCEPT ![p] = TRUE]
         /\ closes' = [closes EXCEPT ![p] = @ + 1]

\* Mutant of drop_closes: the descriptor of either variant is dropped.
drop_closes_always(h) == TRUE

\* impl Drop for Fork, lines 122-125: the arms of `match *self`; TRUE for
\* the arm that drops the master.
drop_closes(h) == h.tag = "Father"

\* impl Drop for Fork, lines 120-127.
Fork_drop(p) ==
  /\ pc[p] = "done"
  /\ Runs(p)
  /\ handle[p].tag \in {"Father", "Child"}
  /\ drops[p] < MaxDrops
  /\ drops' = [drops EXCEPT ![p] = @ + 1]
  /\ IF drop_closes(handle[p])
       THEN Descriptor_drop(p)
       ELSE UNCHANGED <<open, guard, closes>>
  /\ UNCHANGED <<libvars, impl, pc, handle, forkret, pending, calls, std, session,
                 cpid, child, zombies, ret, waitpids, wrets>>

\* ------------------------------------------------------- environment
\* The process created by fork terminates (exit, exec'd program ending, or
\* a signal): it becomes a zombie of P until P reaps it.
ChildExit ==
  /\ child = "running"
  /\ child' = "exited"
  /\ zombies' = zombies \cup {cpid}
  /\ UNCHANGED <<libvars, impl, pc, handle, forkret, pending, calls, open, std,
                 session, cpid, ret, waitpids, wrets, drops, guard, closes>>

\* Another child of P, unrelated to the protocol, terminates.
OtherExit(q) ==
  /\ q # cpid
  /\ q \notin zombies
  /\ zombies' = zombies \cup {q}
  /\ UNCHANGED <<libvars, impl, pc, handle, forkret, pending, calls, open, std,
                 session, cpid, child, ret, waitpids, wrets, drops, guard,
                 closes>>

\* ======================================================= src/lib.rs
\* to_result, lines 209-215, with as_c_return_value_is_error, line 201.
is_error(r) == r = -1

\* An io::Error built from the failure of the named call.
IoErr(c) == Err("io", c)

\* One libc call of process p wrapped in unsafe_try!: on failure the
\* enclosing function returns the error at once, otherwise p goes on at
\* `next`.
UnsafeTry(p, c, ok, next) ==
  /\ calls' = Log(p, c, ok)
  /\ IF ok
       THEN /\ pc' = [pc EXCEPT ![p] = next]
            /\ UNCHANGED handle
       ELSE Return(p, IoErr(c))

\* fork, line 147, open_ptm, line 166: ffi::posix_openpt(O_RDWR).
open_ptm_posix_openpt ==
  /\ pc["P"] = "start"
  /\ impl' = "lib"
  /\ \E ok \in BOOLEAN :
       /\ UnsafeTry("P", "open_master", ok, "l_grantpt")
       /\ open' = [open EXCEPT !["P"] = IF ok THEN @ \cup {"master"} ELSE @]
  /\ UNCHANGED <<libvars, forkret, pending, std, session, cpid, child, zombies, ret,
                 waitpids, wrets, drops, guard, closes>>

\* open_ptm, line 168: ffi::grantpt(pty_master).
open_ptm_grantpt ==
  /\ pc["P"] = "l_grantpt"
  /\ \E ok \in BOOLEAN : UnsafeTry("P", "grantpt", ok, "l_unlockpt")
  /\ UNCHANGED <<libvars, impl, forkret, pending, open, std, session, cpid, child,
                 zombies, ret, waitpids, wrets, drops, guard, closes>>

\* open_ptm, lines 169-171: ffi::unlockpt(pty_master).
open_ptm_unlockpt ==
  /\ pc["P"] = "l_unlockpt"
  /\ \E ok \in BOOLEAN : UnsafeTry("P", "unlockpt", ok, "l_fork")
  /\ UNCHANGED <<libvars, impl, forkret, pending, open, std, session, cpid, child,
                 zombies, ret, waitpids, wrets, drops, guard, closes>>

\* fork, line 148: the call libc::fork().
fork_fork ==
  /\ pc["P"] = "l_fork"
  /\ \E r \in {-1} \cup (Pids \ zombies) :
       /\ calls' = Log("P", "fork", r # -1)
       /\ Fork2(r, "l_branch")
  /\ UNCHANGED <<libvars, impl, handle, zombies, ret, waitpids, wrets, drops, guard,
                 closes>>

\* fork with the test of line 150 inverted.
pid_is_child_inverted(pid) == pid # 0

\* fork, line 150: `if pid == 0`.
pid_is_child(pid) == pid = 0

\* fork, lines 148-162: unsafe_try! on fork's value, then the branch on
\* pid, in each process.
fork_branch(p) ==
  /\ pc[p] = "l_branch"
  /\ Runs(p)
  /\ IF is_error(forkret[p])
       THEN Return(p, IoErr("fork"))
       ELSE IF pid_is_child(forkret[p])
         THEN /\ pc' = [pc EXCEPT ![p] = "l_ptsname"]
              /\ UNCHANGED handle
         ELSE Return(p, LibChild(forkret[p], "Some"))
  /\ UNCHANGED <<libvars, impl, forkret, pending, calls, open, std, session, cpid,
                 child, zombies, ret, waitpids, wrets, drops, guard, closes>>

\* attach_pts, lines 175-179: ffi::ptsname(pty_master), null on failure.
attach_pts_ptsname(p) ==
  /\ pc[p] = "l_ptsname"
  /\ Runs(p)
  /\ \E ok \in BOOLEAN : UnsafeTry(p, "ptsname", ok, "l_close_master")
  /\ UNCHANGED <<libvars, impl, forkret, pending, open, std, session, cpid, child,
                 zombies, ret, waitpids, wrets, drops, guard, closes>>

\* attach_pts, line 181: libc::close(pty_master).
attach_pts_close_master(p) ==
  /\ pc[p] = "l_close_master"
  /\ Runs(p)
  /\ \E ok \in BOOLEAN :
       /\ UnsafeTry(p, "close_master", ok, "l_setsid")
       /\ open' = [open EXCEPT ![p] = IF ok THEN @ \ {"master"} ELSE @]
  /\ closes' = [closes EXCEPT ![p] = @ + 1]
  /\ UNCHANGED <<libvars, impl, forkret, pending, std, session, cpid, child, zombies,
                 ret, waitpids, wrets, drops, guard>>

\* attach_pts, line 182: libc::setsid().
attach_pts_setsid(p) ==
  /\ pc[p] = "l_setsid"
  /\ Runs(p)
  /\ \E ok \in BOOLEAN :
       /\ UnsafeTry(p, "setsid", ok, "l_open")
       /\ session' = [session EXCEPT ![p] = IF ok THEN "new" ELSE @]
  /\ UNCHANGED <<libvars, impl, forkret, pending, open, std, cpid, child, zombies,
                 ret, waitpids, wrets, drops, guard, closes>>

\* Position of a process about to run line 186, 187 or 188.
LDupPc(s) ==
  IF s = STDIN_FILENO THEN "l_dup_stdin"
  ELSE IF s = STDOUT_FILENO THEN "l_dup_stdout"
  ELSE "l_dup_stderr"

\* attach_pts, line 184: libc::open(pts_name, O_RDWR, 0).
attach_pts_open(p) ==
  /\ pc[p] = "l_open"
  /\ Runs(p)
  /\ \E ok \in BOOLEAN :
       /\ UnsafeTry(p, "open_slave", ok, LDupPc(STDIN_FILENO))
       /\ open' = [open EXCEPT ![p] = IF ok THEN @ \cup {"slave"} ELSE @]
  /\ UNCHANGED <<libvars, impl, forkret, pending, std, session, cpid, child, zombies,
                 ret, waitpids, wrets, drops, guard, closes>>

\* attach_pts, lines 186-188: libc::dup2(pty_slave, s).
attach_pts_dup2(p, s) ==
  /\ pc[p] = LDupPc(s)
  /\ Runs(p)
  /\ \E ok \in BOOLEAN :
       /\ UnsafeTry(p, Dup2Name(s), ok,
                    IF s # STDERR_FILENO THEN LDupPc(s + 1) ELSE "l_close_slave")
       /\ std' = [std EXCEPT ![p][s] = IF ok THEN "pts" ELSE @]
  /\ UNCHANGED <<libvars, impl, forkret, pending, open, session, cpid, child, zombies,
                 ret, waitpids, wrets, drops, guard, closes>>

\* attach_pts, lines 190-192, and fork, lines 151-156: libc::close(pty_slave),
\* Ok(()) to fork, which returns Child { pid: 0, pty: None }.
attach_pts_close_slave(p) ==
  /\ pc[p] = "l_close_slave"
  /\ Runs(p)
  /\ \E ok \in BOOLEAN :
       /\ calls' = Log(p, "close_slave", ok)
       /\ open' = [open EXCEPT ![p] = IF ok THEN @ \ {"slave"} ELSE @]
       /\ IF ok
            THEN Return(p, LibChild(forkret[p], "None"))
            ELSE Return(p, IoErr("close_slave"))
  /\ UNCHANGED <<libvars, impl, forkret, pending, std, session, cpid, child, zombies,
                 ret, waitpids, wrets, drops, guard, closes>>

\* ------------------------------------ src/lib.rs: Child and ChildPTY
\* A process may call a method of the Child value fork() returned to it
\* once fork() returned, unless a panic ended it.
HoldsLib(p) ==
  /\ pc[p] = "done"
  /\ Runs(p)
  /\ handle[p].tag = "LibChild"
  /\ ~panicked[p]

\* libc::close(fd) in a process whose open descriptors are fds: 0 and the
\* descriptor is released, or -1 (EBADF) when it is not open.
libc_close(fds, fd) == IF fd \in fds THEN 0 ELSE -1

\* Child::pty, lines 40-42: self.pty.clone().  A Some gives the caller one
\* more ChildPTY with the same fd.
Child_pty(p) ==
  /\ HoldsLib(p)
  /\ IF handle[p].pty = "Some"
       THEN /\ copies[p] < MaxCopies
            /\ copies' = [copies EXCEPT ![p] = @ + 1]
       ELSE UNCHANGED copies
  /\ UNCHANGED <<impl, pc, handle, forkret, pending, calls, open, std,
                 session, cpid, child, zombies, ret, waitpids, wrets, drops,
                 guard, closes, ttypath, wstats, panicked, orphans, iorets>>

\* #[derive(Clone)] on ChildPTY, lines 21-24: one more value, same fd.
\* (A clone of Child, lines 27-31, has the same pid and pty: a call on it
\* is a call on the value fork() returned.)
ChildPTY_clone(p) ==
  /\ HoldsLib(p)
  /\ copies[p] >= 1
  /\ copies[p] < MaxCopies
  /\ copies' = [copies EXCEPT ![p] = @ + 1]
  /\ UNCHANGED <<impl, pc, handle, forkret, pending, calls, open, std,
                 session, cpid, child, zombies, ret, waitpids, wrets, drops,
                 guard, closes, ttypath, wstats, panicked, orphans, iorets>>

\* ChildPTY::close, lines 68-70: libc::close(self.fd), on any of the
\* values the caller holds; &self, so the value stays usable.
ChildPTY_close(p) ==
  /\ HoldsLib(p)
  /\ copies[p] >= 1
  /\ closes[p] < MaxCloses
  /\ closes' = [closes EXCEPT ![p] = @ + 1]
  /\ open' = [open EXCEPT ![p] = @ \ {"master"}]
  /\ ret' = [ret EXCEPT ![p] =
       R("close", libc_close(open[p], "master") = 0, 0, "master", "")]
  /\ UNCHANGED <<impl, pc, handle, forkret, pending, calls, std, session,
                 cpid, child, zombies, waitpids, wrets, drops, guard, libvars>>

\* wait::waitpid(pid, None) of nix called by process p: the results it may
\* give.  "Err" is Err(e); "Exited" stands for every status of a child
\* that terminated (pid > 0 names one child of the caller, pid 0 any child
\* in the caller's process group); "StillAlive" is the status Child::wait
\* retries on.
wait_waitpid(p, pid) ==
  {"Err", "StillAlive"}
    \cup (IF p = "P"
            THEN (IF (IF pid > 0 THEN {pid} \cap zombies ELSE zombies) # {}
                    THEN {"Exited"} ELSE {})
            ELSE (IF pid = 0 /\ orphans THEN {"Exited"} ELSE {}))

\* Child::wait, lines 45-47: the call, up to the first waitpid.
Child_wait(p) ==
  /\ HoldsLib(p)
  /\ waitpids[p] < MaxWaitpid
  /\ pc' = [pc EXCEPT ![p] = "l_waiting"]
  /\ wstats' = [wstats EXCEPT ![p] = "none"]
  /\ ret' = [ret EXCEPT ![p] = NoRet]
  /\ UNCHANGED <<impl, handle, forkret, pending, calls, open, std, session,
                 cpid, child, zombies, waitpids, wrets, drops, guard, closes,
                 ttypath, copies, panicked, orphans, iorets>>

\* Child::wait with the StillAlive arm closing the pty like the others.
StatusArm_always_close(st) == "close"

\* Child::wait, lines 51-58: the arms of `match status`.
StatusArm(st) == IF st = "StillAlive" THEN "continue" ELSE "close"

\* Child::wait, line 54: self.pty().unwrap() panics on None.
unwrap_panics(pty) == pty = "None"

\* The child a successful waitpid of process p reaped.
Reap(p, st) ==
  IF st # "Exited" THEN UNCHANGED <<zombies, orphans>>
  ELSE IF p = "P"
    THEN /\ zombies' = zombies \ {IF handle[p].pid > 0 THEN handle[p].pid
                                  ELSE CHOOSE z \in zombies : TRUE}
         /\ UNCHANGED orphans
    ELSE /\ orphans' = FALSE
         /\ UNCHANGED zombies

\* Child::wait, lines 46-62: one turn of the loop.
Child_wait_waitpid(p) ==
  /\ pc[p] = "l_waiting"
  /\ Runs(p)
  /\ \E st \in wait_waitpid(p, handle[p].pid) :
       /\ st = "StillAlive" => waitpids[p] < MaxWaitpid
       /\ waitpids' = [waitpids EXCEPT ![p] = @ + 1]
       /\ wstats' = [wstats EXCEPT ![p] = st]
       /\ Reap(p, st)
       /\ CASE st = "Err" ->
                 /\ pc' = [pc EXCEPT ![p] = "done"]
                 /\ ret' = [ret EXCEPT ![p] = R("Child_wait", FALSE, 0, "None", "errno")]
                 /\ UNCHANGED <<open, closes, panicked>>
            [] st # "Err" /\ StatusArm(st) = "continue" ->
                 UNCHANGED <<pc, ret, open, closes, panicked>>
            [] st # "Err" /\ StatusArm(st) = "close"
                 /\ unwrap_panics(handle[p].pty) ->
                 /\ pc' = [pc EXCEPT ![p] = "panicked"]
                 /\ panicked' = [panicked EXCEPT ![p] = TRUE]
                 /\ UNCHANGED <<ret, open, closes>>
            [] OTHER ->
                 /\ closes' = [closes EXCEPT ![p] = @ + 1]
                 /\ open' = [open EXCEPT ![p] = @ \ {"master"}]
                 /\ pc' = [pc EXCEPT ![p] = "done"]
                 /\ ret' = [ret EXCEPT ![p] = R("Child_wait", TRUE, 0, "None", "")]
                 /\ UNCHANGED panicked
  /\ UNCHANGED <<impl, handle, forkret, pending, calls, std, session, cpid,
                 child, wrets, drops, guard, ttypath, copies, iorets>>

\* A process C started after fork() returned to it terminates: C has a
\* child of its own to be reaped.  Only Child::wait in C can observe it.
OrphanExit ==
  /\ child = "running"
  /\ pc["C"] = "done"
  /\ handle["C"].tag = "LibChild"
  /\ ~orphans
  /\ orphans' = TRUE
  /\ UNCHANGED <<impl, pc, handle, forkret, pending, calls, open, std,
                 session, cpid, child, zombies, ret, waitpids, wrets, drops,
                 guard, closes, ttypath, copies, wstats, panicked, iorets>>

\* ------------------------------------------------------ specification
\* Fork::new up to its return, in both processes.
ProtocolMod ==
  \/ \E path \in Paths : Fork_new(path)
  \/ Fork_from_ptmx
  \/ Fork_new_grantpt
  \/ Fork_new_unlockpt
  \/ Fork_new_fork
  \/ \E p \in Procs : Fork_new_match(p)
  \/ \E p \in Procs : Fork_new_ptsname(p)
  \/ \E p \in Procs : from_pts_setsid(p)
  \/ \E p \in Procs : from_pts_SlaveNew(p)
  \/ \E p \in Procs, s \in Slots : from_pts_dup2(p, s)

\* The methods and the destructor of the Fork value.
HandleMod ==
  \/ \E p \in Procs : Fork_wait(p)
  \/ \E p \in Procs : Fork_wait_waitpid(p)
  \/ \E p \in Procs : Fork_is_father(p)
  \/ \E p \in Procs : Fork_is_child(p)
  \/ \E p \in Procs : Fork_drop(p)

\* fork() of lib.rs up to its return, in both processes.
ProtocolLib ==
  \/ open_ptm_posix_openpt
  \/ open_ptm_grantpt
  \/ open_ptm_unlockpt
  \/ fork_fork
  \/ \E p \in Procs : fork_branch(p)
  \/ \E p \in Procs : attach_pts_ptsname(p)
  \/ \E p \in Procs : attach_pts_close_master(p)
  \/ \E p \in Procs : attach_pts_setsid(p)
  \/ \E p \in Procs : attach_pts_open(p)
  \/ \E p \in Procs, s \in Slots : attach_pts_dup2(p, s)
  \/ \E p \in Procs : attach_pts_close_slave(p)

\* The methods of Child and ChildPTY of lib.rs.
HandleLib ==
  \/ \E p \in Procs : Child_pty(p)
  \/ \E p \in Procs : ChildPTY_clone(p)
  \/ \E p \in Procs : ChildPTY_close(p)
  \/ \E p \in Procs : Child_wait(p)
  \/ \E p \in Procs : Child_wait_waitpid(p)

\* Both entry points with the Fork value's methods.
Next ==
  \/ ProtocolMod
  \/ HandleMod
  \/ ProtocolLib
  \/ ChildExit
  \/ \E q \in Pids : OtherExit(q)

\* fork() of lib.rs with the methods of the value it returns.
NextLib ==
  \/ ProtocolLib
  \/ HandleLib
  \/ ChildExit
  \/ OrphanExit

\* Both entry points up to their return, on any terminal.
NextProtocol ==
  \/ ProtocolMod
  \/ ProtocolLib
  \/ ChildExit

Spec == Init /\ [][Next]_vars
SpecLib == Init /\ [][NextLib]_vars
SpecTty == InitTty /\ [][NextProtocol]_vars

\* ============================================================ claims
\* Reading the per-process log of OS-level calls.
Idx(p, c) == {i \in 1..Len(calls[p]) : calls[p][i].c = c}
Did(p, c) == Idx(p, c) # {}
Succeeded(p, c) == \E i \in Idx(p, c) : calls[p][i].ok
Failed(p, c) == \E i \in Idx(p, c) : ~calls[p][i].ok
\* Every call d of p comes after a successful call c of p.
AfterOk(p, c, d) ==
  \A j \in Idx(p, d) : \E i \in Idx(p, c) : i < j /\ calls[p][i].ok
Dup2Names == {Dup2Name(s) : s \in Slots}

\* C1, state part: a result held by the original process is never the
\* child variant and one held by the new process is never the parent
\* variant; the parent variant carries the pid of the new process (> 0)
\* and the master, lib.rs's parent value has pid > 0 and Some pty, its
\* child value pid 0 and no pty; once the fork succeeded, a process that
\* left Fork::new has the variant of its own side or an error.
C1_Sides ==
  /\ handle["P"].tag # "Child"
  /\ handle["C"].tag # "Father"
  /\ handle["P"].tag = "Father" =>
       /\ handle["P"].pid > 0
       /\ handle["P"].pid = cpid
       /\ handle["P"].pty = "master"
       /\ child # "unborn"
  /\ handle["C"].tag = "Child" => handle["C"].pty = "slave" /\ forkret["C"] = 0
  /\ handle["P"].tag = "LibChild" =>
       /\ handle["P"].pid > 0
       /\ handle["P"].pid = cpid
       /\ handle["P"].pty = "Some"
  /\ handle["C"].tag = "LibChild" =>
       /\ handle["C"].pid = 0
       /\ handle["C"].pty = "None"
  /\ (child # "unborn" /\ pc["P"] = "done") =>
       handle["P"].tag = (IF impl = "mod" THEN "Father" ELSE "LibChild")
  /\ pc["C"] = "done" =>
       handle["C"].tag \in {IF impl = "mod" THEN "Child" ELSE "LibChild", "Err"}

\* C1, step part: a process receives one result; it is never replaced.
C1_Once ==
  \A p \in Procs : handle[p].tag # "none" => handle'[p] = handle[p]

\* C1: after a successful fork the original process receives exactly one
\* parent-variant result and the new process exactly one child-variant
\* result, and no process receives the variant of the other side.
C1_OneVariantPerSide == [](C1_Sides) /\ [][C1_Once]_vars

\* C1 witness: both processes hold the result of their side (Fork::new).
C1_Witness ==
  /\ handle["P"].tag = "Father"
  /\ handle["C"].tag = "Child"

\* C2: grant is attempted before unlock, and when allocation succeeded
\* and grant failed, unlock and fork are not attempted and the error
\* returned is BadMaster.
C2_GrantFailureStops ==
  /\ AfterOk("P", "open_master", "grantpt")
  /\ \A j \in Idx("P", "unlockpt") : \E i \in Idx("P", "grantpt") : i < j
  /\ Failed("P", "grantpt") =>
       /\ ~Did("P", "unlockpt")
       /\ ~Did("P", "fork")
       /\ (pc["P"] = "done" /\ impl = "mod") =>
            handle["P"] = Err("BadMaster", "grantpt")

\* C3: in the child the slave is duplicated onto stdin, stdout, stderr in
\* this order and the first failure ends it: no later slot is attempted,
\* and the error returned is BadSlave.
C3_DupStopsAtFirstFailure ==
  \A p \in Procs :
    /\ \A j \in Idx(p, "dup2_stdout") : \E i \in Idx(p, "dup2_stdin") : i < j
    /\ \A j \in Idx(p, "dup2_stderr") : \E i \in Idx(p, "dup2_stdout") : i < j
    /\ Failed(p, "dup2_stdin") =>
         ~Did(p, "dup2_stdout") /\ ~Did(p, "dup2_stderr")
    /\ Failed(p, "dup2_stdout") => ~Did(p, "dup2_stderr")
    /\ ((\E c \in Dup2Names : Failed(p, c)) /\ pc[p] = "done" /\ impl = "mod")
         => handle[p].tag = "Err" /\ handle[p].err = "BadSlave"

\* C4: fork is called at most once, only by the original process and only
\* after allocation, grant and unlock all succeeded; when one of them
\* failed no process was created, fork is not called, and the protocol
\* ends in an error.
C4_ForkOnlyWhenMasterReady ==
  /\ Cardinality(Idx("P", "fork")) <= 1
  /\ ~Did("C", "fork")
  /\ AfterOk("P", "open_master", "fork")
  /\ AfterOk("P", "grantpt", "fork")
  /\ AfterOk("P", "unlockpt", "fork")
  /\ child # "unborn" => Succeeded("P", "fork")
  /\ (\E c \in {"open_master", "grantpt", "unlockpt"} : Failed("P", c)) =>
       /\ child = "unborn"
       /\ ~Did("P", "fork")
       /\ pc["P"] \in {"m_unlockpt", "done"}
       /\ pc["P"] = "done" => handle["P"].tag = "Err"

\* C4 witness: the master was readied and fork created the new process.
C4_Witness ==
  /\ Succeeded("P", "fork")
  /\ child = "running"

\* C5: a process opens the slave or duplicates it onto a standard slot
\* only after its own setsid succeeded.
C5_SetsidFirst ==
  \A p \in Procs :
    /\ \A c \in {"open_slave"} \cup Dup2Names : AfterOk(p, "setsid", c)
    /\ ("slave" \in open[p] \/ \E s \in Slots : std[p][s] = "pts") =>
         session[p] = "new"

\* C5 witness: the child duplicated the slave onto a standard slot.
C5_Witness ==
  /\ Succeeded("C", "dup2_stdin")
  /\ session["C"] = "new"

\* C6: when Fork::new returns Child(slave), slave-path resolution, setsid,
\* opening the slave and the three duplications all succeeded, no call of
\* the process failed, and the three standard slots refer to the slave.
C6_ChildMeansAllStepsSucceeded ==
  \A p \in Procs :
    handle[p].tag = "Child" =>
      /\ \A c \in {"ptsname", "setsid", "open_slave"} \cup Dup2Names :
           Succeeded(p, c)
      /\ \A i \in 1..Len(calls[p]) : calls[p][i].ok
      /\ \A s \in Slots : std[p][s] = "pts"
      /\ session[p] = "new"
      /\ "slave" \in open[p]

\* C6 witness: the new process holds Child(slave).
C6_Witness == handle["C"].tag = "Child" /\ pc["C"] = "done"

\* C7: wait() on the parent variant returns Ok only when waitpid returned
\* the pid stored in the handle, which it does only once that child has
\* terminated; the value is that pid; every 0 from waitpid is followed by
\* another waitpid, never by a return.
C7_WaitReturnsOwnChild ==
  \A p \in Procs :
    /\ pc[p] = "waiting" =>
         \A i \in 1..Len(wrets[p]) : wrets[p][i] = 0
    /\ (ret[p].op = "wait" /\ handle[p].tag = "Father") =>
         /\ Len(wrets[p]) >= 1
         /\ \A i \in 1..(Len(wrets[p]) - 1) : wrets[p][i] = 0
         /\ wrets[p][Len(wrets[p])] # 0
    /\ (ret[p].op = "wait" /\ ret[p].ok) =>
         /\ handle[p].tag = "Father"
         /\ ret[p].pid = handle[p].pid
         /\ ret[p].pid = cpid
         /\ wrets[p][Len(wrets[p])] = cpid
         /\ child = "exited"
         /\ cpid \notin zombies

\* C7 witness: wait() returned Ok after a "no state change" result, while
\* another child of the process had terminated too.
C7_Witness ==
  /\ ret["P"].op = "wait"
  /\ ret["P"].ok
  /\ Len(wrets["P"]) >= 2
  /\ zombies # {}

\* C8: wait() on the child variant returns IsChild at once: the process
\* never calls waitpid and is never inside the wait loop.
C8_ChildWaitIsChild ==
  \A p \in Procs :
    handle[p].tag = "Child" =>
      /\ waitpids[p] = 0
      /\ pc[p] # "waiting"
      /\ ret[p].op = "wait" =>
           /\ ~ret[p].ok
           /\ ret[p].err = "IsChild"
           /\ wrets[p] = <<>>

\* C8 witness: the child variant's wait() has returned.
C8_Witness == handle["C"].tag = "Child" /\ ret["C"].op = "wait"

\* C9, state part: is_father gives IsChild on the child variant and the
\* master on the parent variant; is_child gives IsFather on the parent
\* variant and the slave on the child variant.
C9_Results ==
  \A p \in Procs :
    /\ (ret[p].op = "is_father" /\ handle[p].tag = "Child") =>
         ~ret[p].ok /\ ret[p].err = "IsChild"
    /\ (ret[p].op = "is_father" /\ handle[p].tag = "Father") =>
         ret[p].ok /\ ret[p].fd = "master"
    /\ (ret[p].op = "is_child" /\ handle[p].tag = "Father") =>
         ~ret[p].ok /\ ret[p].err = "IsFather"
    /\ (ret[p].op = "is_child" /\ handle[p].tag = "Child") =>
         ret[p].ok /\ ret[p].fd = "slave"
    /\ ret[p].op \in {"is_father", "is_child"} =>
         handle[p].tag \in {"Father", "Child"}

\* C9, step part: a step in which an accessor returns leaves the variant,
\* the descriptor tables and the close guard as they were.
C9_Frame ==
  \A p \in Procs :
    (ret'[p] # ret[p] /\ ret'[p].op \in {"is_father", "is_child"}) =>
      UNCHANGED <<handle, open, std, guard, closes, drops, pc>>

\* C9: the accessors are total and side-correct, and change neither the
\* variant nor the state of any descriptor.
C9_AccessorsSideCorrect == [](C9_Results) /\ [][C9_Frame]_vars

\* C9 witness: each accessor was called on the wrong side.
C9_Witness ==
  /\ ret["P"].op = "is_child"
  /\ ret["C"].op = "is_father"
  /\ handle["C"].tag = "Child"

\* C10: the parent variant's master stays open, with no close issued,
\* through wait(), is_father() and is_child(); it is closed by the first
\* destruction and a second destruction closes nothing more; destroying
\* the child variant closes nothing.
C10_MasterClosedOnceAtDrop ==
  \A p \in Procs :
    /\ (handle[p].tag = "Father" /\ drops[p] = 0) =>
         closes[p] = 0 /\ "master" \in open[p]
    /\ (handle[p].tag = "Father" /\ drops[p] >= 1) =>
         closes[p] = 1 /\ "master" \notin open[p]
    /\ handle[p].tag = "Child" =>
         closes[p] = 0 /\ {"master", "slave"} \subseteq open[p]

\* C10 witness: a parent-variant handle that was used and then destroyed
\* twice, beside a destroyed child-variant handle.
C10_Witness ==
  /\ handle["P"].tag = "Father"
  /\ ret["P"].op = "wait"
  /\ drops["P"] >= 2
  /\ handle["C"].tag = "Child"
  /\ drops["C"] >= 1

\* C11: through Child::pty, Child::wait, ChildPTY::close and cloning, no
\* process issues close(2) on its master descriptor more than once.
C11_NoDoubleClose == \A p \in Procs : closes[p] <= 1

\* C12, state part: a process whose setsid failed has returned from the
\* protocol with SetsidFail (Fork::new) resp. the io error of setsid
\* (fork() of lib.rs); it is the new process; it opened no slave,
\* duplicated onto no standard slot and is in the session it was born
\* in; the original process, once it returned, holds its parent-variant
\* result.
C12_SetsidFailure ==
  \A p \in Procs :
    Failed(p, "setsid") =>
      /\ p = "C"
      /\ pc[p] = "done"
      /\ handle[p] = (IF impl = "mod" THEN Err("SetsidFail", "")
                      ELSE IoErr("setsid"))
      /\ ~Did(p, "open_slave")
      /\ \A c \in Dup2Names : ~Did(p, c)
      /\ "slave" \notin open[p]
      /\ \A s \in Slots : std[p][s] = "tty"
      /\ session[p] = "orig"
      /\ pc["P"] = "done" =>
           handle["P"].tag = (IF impl = "mod" THEN "Father" ELSE "LibChild")

\* C12, step part: the step in which the failed setsid is reported does
\* not end the process: it is still running when the error is returned.
C12_StillAlive ==
  \A p \in Procs :
    (~Failed(p, "setsid") /\ Failed(p, "setsid")') =>
      child' = "running" /\ handle'[p].tag = "Err"

\* C12: a failed setsid in the child ends the protocol there with
\* SetsidFail, with no slave opened or duplicated and the child process
\* left alive, while the parent still receives its parent-variant result.
C12_SetsidFailIsReported == [](C12_SetsidFailure) /\ [][C12_StillAlive]_vars

\* C12 witness: setsid failed in the child of Fork::new, which is still
\* running, and the parent holds Father.
C12_Witness ==
  /\ Failed("C", "setsid")
  /\ handle["C"].err = "SetsidFail"
  /\ child = "running"
  /\ handle["P"].tag = "Father"

\* The slave name the kernel gives the pair allocated by posix_openpt:
\* the lowest pts index no terminal in use has (ptsname at mod.rs 41 and
\* lib.rs 175).
ptsname(tty) ==
  IF tty = <<"", "dev", "pts", "0">> THEN <<"", "dev", "pts", "1">>
  ELSE <<"", "dev", "pts", "0">>

\* What `tty` prints in process p: the terminal its standard input refers
\* to (the test's Command::new("tty"), lib.rs 233 and 242).
tty(p) == IF std[p][STDIN_FILENO] = "pts" THEN ptsname(ttypath) ELSE ttypath

\* The test's split("/") followed by pop(): the path without its last
\* component (lib.rs 254-258).
DirOf(path) == IF path = <<>> THEN <<>> ELSE SubSeq(path, 1, Len(path) - 1)

\* The fork succeeded on both sides.
ForkSucceeded ==
  /\ handle["P"].tag \in {"Father", "LibChild"}
  /\ handle["C"].tag \in {"Child", "LibChild"}

C15_WaitResult ==
  \A p \in Procs :
    ret[p].op = "Child_wait" =>
      /\ ret[p].ok =>
           /\ wstats[p] = "Exited"
           /\ "master" \notin open[p]
           /\ closes[p] >= 1
      /\ ~ret[p].ok => wstats[p] = "Err"

\* C15, step part: a turn of the loop that saw StillAlive stays in the
\* loop and closes nothing; a turn that saw a wait error returns Err and
\* closes nothing.
C15_WaitTurn ==
  \A p \in Procs :
    (pc[p] = "l_waiting" /\ waitpids'[p] = waitpids[p] + 1) =>
      /\ wstats'[p] = "StillAlive" =>
           /\ pc'[p] = "l_waiting"
           /\ open'[p] = open[p]
           /\ closes'[p] = closes[p]
      /\ wstats'[p] = "Err" =>
           /\ ret'[p].op = "Child_wait" /\ ~ret'[p].ok
           /\ pc'[p] = "done"
           /\ open'[p] = open[p]
           /\ closes'[p] = closes[p]

\* C15: Child::wait returns Ok(()) only after a status other than
\* StillAlive, with the pty master closed before it returns; StillAlive
\* retries without closing; a wait error returns Err without closing.
C15_WaitThenClose == [](C15_WaitResult) /\ [][C15_WaitTurn]_vars

\* C15 witness: the parent's Child::wait retried at least once and then
\* returned Ok with the master closed.
C15_Witness ==
  /\ ret["P"].op = "Child_wait"
  /\ ret["P"].ok
  /\ waitpids["P"] >= 2
  /\ closes["P"] = 1
  /\ "master" \notin open["P"]

\* The original process returned an error from a step after the master
\* was allocated: grant, unlock or fork failed.
FailedAfterMaster ==
  /\ pc["P"] = "done"
  /\ handle["P"].tag = "Err"
  /\ Succeeded("P", "open_master")
  /\ Failed("P", "grantpt") \/ Failed("P", "unlockpt") \/ Failed("P", "fork")

\* C16: when fork (or grant or unlock) fails after the master was
\* allocated, the protocol has returned the error, no process performed a
\* child-side step, and the master descriptor is closed, not left open.
C16_FailureClosesMaster ==
  FailedAfterMaster =>
    /\ \A p \in Procs :
         \A c \in {"ptsname", "setsid", "open_slave"} \cup Dup2Names : ~Did(p, c)
    /\ "master" \notin open["P"]

\* The turn of wait()'s loop in which the kernel reports the exit of the
\* awaited child to the original process (mod.rs 90-94, lib.rs 47-56).
WaitReports ==
  \/ Fork_wait_waitpid("P") /\ ret'["P"].op = "wait" /\ ret'["P"].ok
  \/ Child_wait_waitpid("P") /\ wstats'["P"] = "Exited"

\* Both protocols, wait() on their results, and the exit of the child.
NextWait ==
  \/ ProtocolMod
  \/ ProtocolLib
  \/ \E p \in Procs : Fork_wait(p)
  \/ \E p \in Procs : Fork_wait_waitpid(p)
  \/ \E p \in Procs : Child_wait(p)
  \/ \E p \in Procs : Child_wait_waitpid(p)
  \/ ChildExit

\* The blocking wait call of a scheduled process returns once the awaited
\* child is a zombie.
SpecWait == Init /\ [][NextWait]_vars /\ WF_vars(WaitReports)

\* The original process is inside the loop of wait().
Waiting == pc["P"] \in {"waiting", "l_waiting"}

\* wait() of the original process has returned.
WaitReturned ==
  /\ pc["P"] = "done"
  /\ ret["P"].op \in {"wait", "Child_wait"}

\* C17, results: Ok(pid) carries the pid of the handle and is returned
\* only after the wait call reported that child, which has terminated;
\* an error result is WaitpidFail and follows a -1 of the wait call.
C17_WaitResult ==
  ret["P"].op = "wait" =>
    /\ wrets["P"] # <<>>
    /\ ret["P"].ok =>
         /\ ret["P"].pid = handle["P"].pid
         /\ wrets["P"][Len(wrets["P"])] = handle["P"].pid
         /\ child = "exited"
    /\ ~ret["P"].ok =>
         /\ ret["P"].err = "WaitpidFail"
         /\ wrets["P"][Len(wrets["P"])] = -1

\* C17, loop: a wait call that reports no state change (0) keeps wait()
\* in its loop.
C17_WaitTurn ==
  (pc["P"] = "waiting" /\ Len(wrets'["P"]) = Len(wrets["P"]) + 1
     /\ wrets'["P"][Len(wrets'["P"])] = 0) =>
    pc'["P"] = "waiting" /\ ret'["P"] = ret["P"]

\* C17 as stated, last clause: wait() on the parent-variant handle has not
\* returned while the child has not changed state.
C17_NoReturnBeforeExit ==
  (ret["P"].op \in {"wait", "Child_wait"}) => child = "exited"

\* C17, amended: when the child has terminated and the wait call is
\* scheduled, wait() on the parent-variant handle returns, with Ok(pid)
\* unless the wait call fails; it returns WaitpidFail exactly on a -1 of
\* the wait call, which can come while the child still runs; it returns
\* Ok only after the child terminated, and 0 results keep it waiting.
C17_WaitLiveness ==
  /\ [](C17_WaitResult)
  /\ [][C17_WaitTurn]_vars
  /\ (Waiting /\ cpid \in zombies) ~> WaitReturned

\* C17 witness: wait() saw no state change first and returned Ok(pid)
\* after the child terminated.
C17_Witness ==
  /\ ret["P"].op = "wait"
  /\ ret["P"].ok
  /\ Len(wrets["P"]) >= 2
  /\ wrets["P"][1] = 0
  /\ child = "exited"

\* C18: the original process never calls setsid, never opens the slave
\* and never duplicates onto a standard slot; its session and its three
\* standard slots are those it had before the call, whether the call
\* succeeded or failed.
C18_ParentUntouched ==
  /\ \A c \in {"setsid", "open_slave", "close_slave"} \cup Dup2Names : ~Did("P", c)
  /\ session["P"] = "orig"
  /\ \A s \in Slots : std["P"][s] = "tty"
  /\ "slave" \notin open["P"]

\* C18 witness: the new process of fork() of lib.rs became a session
\* leader on the slave while the original process returned untouched.
C18_Witness ==
  /\ impl = "lib"
  /\ pc["P"] = "done"
  /\ handle["P"].tag = "LibChild"
  /\ session["C"] = "new"
  /\ \A s \in Slots : std["C"][s] = "pts"
  /\ Succeeded("C", "close_slave")

\* C19: Child::wait panics in no process, whatever value of fork() it is
\* called on and whatever the wait call reports.
C19_WaitNeverPanics == \A p \in Procs : ~panicked[p] /\ pc[p] # "panicked"

\* ------------------------------------------- reading and writing the master
\* read(2) and write(2) on descriptor fd of a process whose open
\* descriptors are fds: -1 on failure (always, when fd is not open; EIO
\* once the slave side is closed), else a count up to the buffer length.
libc_read(fds, fd) == IF fd \in fds THEN {-1} \cup (0..BufLen) ELSE {-1}
libc_write(fds, fd) == IF fd \in fds THEN {-1} \cup (0..BufLen) ELSE {-1}

\* An io::Result<usize>.
IoOk(n) == [ok |-> TRUE, n |-> n]
IoFail == [ok |-> FALSE, n |-> 0]

\* ChildPTY::read handing the error of read(2) to its caller.
ChildPTY_read_propagates(nread) == IF is_error(nread) THEN IoFail ELSE IoOk(nread)

\* impl Read for ChildPTY, lines 80-89: the error of read(2) becomes Ok(0).
ChildPTY_read(nread) == IF is_error(nread) THEN IoOk(0) ELSE IoOk(nread)

\* impl Write for ChildPTY, lines 93-99: unsafe_try! returns the error.
ChildPTY_write(nwritten) == IF is_error(nwritten) THEN IoFail ELSE IoOk(nwritten)

\* Read::read_to_string on a ChildPTY, as called at line 240: the caller
\* starts the read-to-end loop.
read_to_string(p) ==
  /\ HoldsLib(p)
  /\ copies[p] >= 1
  /\ pc' = [pc EXCEPT ![p] = "l_reading"]
  /\ iorets' = [iorets EXCEPT ![p] = <<>>]
  /\ ret' = [ret EXCEPT ![p] = NoRet]
  /\ UNCHANGED <<impl, handle, forkret, pending, calls, open, std, session,
                 cpid, child, zombies, waitpids, wrets, drops, guard, closes,
                 ttypath, copies, wstats, panicked, orphans>>

\* One turn of the read-to-end loop: ChildPTY::read; Ok(0) ends the loop
\* with Ok, Ok(n) continues, Err ends it with Err.
read_to_string_read(p) ==
  /\ pc[p] = "l_reading"
  /\ Runs(p)
  /\ \E nread \in libc_read(open[p], "master") :
       LET res == ChildPTY_read(nread)
       IN /\ nread > 0 => Len(iorets[p]) + 1 < MaxReads
          /\ iorets' = [iorets EXCEPT ![p] = Append(@, nread)]
          /\ CASE ~res.ok ->
                    /\ pc' = [pc EXCEPT ![p] = "done"]
                    /\ ret' = [ret EXCEPT ![p] = R("read_to_string", FALSE, 0, "master", "io")]
               [] res.ok /\ res.n = 0 ->
                    /\ pc' = [pc EXCEPT ![p] = "done"]
                    /\ ret' = [ret EXCEPT ![p] = R("read_to_string", TRUE, 0, "master", "")]
               [] OTHER -> UNCHANGED <<pc, ret>>
  /\ UNCHANGED <<impl, handle, forkret, pending, calls, open, std, session,
                 cpid, child, zombies, waitpids, wrets, drops, guard, closes,
                 ttypath, copies, wstats, panicked, orphans>>

\* Write::write on a ChildPTY.
ChildPTY_write_buf(p) ==
  /\ HoldsLib(p)
  /\ copies[p] >= 1
  /\ \E nwritten \in libc_write(open[p], "master") :
       LET res == ChildPTY_write(nwritten)
       IN /\ iorets' = [iorets EXCEPT ![p] = <<nwritten>>]
          /\ ret' = [ret EXCEPT ![p] =
               R("write", res.ok, 0, "master", IF res.ok THEN "" ELSE "io")]
  /\ UNCHANGED <<impl, pc, handle, forkret, pending, calls, open, std, session,
                 cpid, child, zombies, waitpids, wrets, drops, guard, closes,
                 ttypath, copies, wstats, panicked, orphans>>

\* fork() of lib.rs, then reading, writing and closing the master.
NextIo ==
  \/ ProtocolLib
  \/ \E p \in Procs : Child_pty(p)
  \/ \E p \in Procs : ChildPTY_close(p)
  \/ \E p \in Procs : read_to_string(p)
  \/ \E p \in Procs : read_to_string_read(p)
  \/ \E p \in Procs : ChildPTY_write_buf(p)
  \/ ChildExit

SpecIo == Init /\ [][NextIo]_vars

\* The last value of a non-empty sequence.
Last(s) == s[Len(s)]

\* C20, results: a read-to-end over the master never ends with an
\* error; it ends at the first read(2) that fails or returns 0, every
\* earlier one having returned data; a write is Ok exactly when write(2)
\* did not fail.
C20_IoResult ==
  \A p \in Procs :
    /\ ret[p].op = "read_to_string" =>
         /\ ret[p].ok
         /\ iorets[p] # <<>>
         /\ Last(iorets[p]) \in {-1, 0}
         /\ \A i \in 1..(Len(iorets[p]) - 1) : iorets[p][i] > 0
    /\ ret[p].op = "write" => (ret[p].ok <=> iorets[p] # <<-1>>)

\* C20, loop: the turn in which read(2) fails ends the read-to-end with
\* Ok.
C20_ReadTurn ==
  \A p \in Procs :
    (pc[p] = "l_reading" /\ Len(iorets'[p]) = Len(iorets[p]) + 1
       /\ Last(iorets'[p]) = -1) =>
      /\ pc'[p] = "done"
      /\ ret'[p].op = "read_to_string"
      /\ ret'[p].ok

\* C20: ChildPTY::read never returns an error, a failing read(2) is
\* reported as Ok(0) and ends a read-to-end loop; ChildPTY::write returns
\* Err when write(2) fails.
C20_ReadNeverFails == [](C20_IoResult) /\ [][C20_ReadTurn]_vars

\* C20 witness: a read-to-end in the parent got data, then a failing
\* read(2) after the child terminated, and returned Ok.
C20_Witness ==
  /\ ret["P"].op = "read_to_string"
  /\ ret["P"].ok
  /\ Len(iorets["P"]) = 2
  /\ Last(iorets["P"]) = -1
  /\ child = "exited"

====
